---- MODULE Spec2Model ----
(***************************************************************************)
(* Model of the request orchestration of the AI Fashion Studio front end   *)
(* (src/App.tsx): the generate / lookbook / edit handlers, the completion  *)
(* callbacks of their Gateway calls, and the UI events that can interleave *)
(* with them on the single event loop.                                     *)
(***************************************************************************)
EXTENDS Integers, Sequences, FiniteSets, TLC

\* ---------------------------------------------------------------- bounds
\* number of upload positions modelled (the program has MAX_IMAGES = 10)
NumUploadSlots == 1
\* cap on handleEdit invocations whose Gateway call is still pending
MaxEditsInFlight == 1
\* cap on handleGenerate invocations whose Gateway calls are still pending
MaxGeneratesInFlight == 2

\* ------------------------------------------------------ program constants
\* [baseImage, ...prev].slice(0, 5)
HISTORY_MAX == 5
\* Array(4).fill('loading')
LOOKBOOK_SLOTS == 4

\* ------------------------------------------------------------ input sets
\* data URLs a Gateway call can return
Images == {"imgA", "imgB"}
\* non-empty texts the user can type into the edit input
Prompts == {"p1", "p2"}
\* the variant indices of [1, 2, 3].map(...)
VariantSlots == {1, 2, 3}
UploadSlots == 0 .. (NumUploadSlots - 1)

INITIAL_MODEL_DESCRIPTION == "INITIAL"
ValidationMessage == "validation"
GatewayMessage == "gateway"
NoError == "null"
\* useState<number | null>(null): null as an index
NoIndex == -1

VARIABLES
    originalImages,    \* [UploadSlots -> BOOLEAN]: TRUE where an image is held
    modelDescription,  \* "" | INITIAL_MODEL_DESCRIPTION | "text"
    isLookbookMode,
    generatedImages,   \* the slot sequence; index 0 of the code is index 1 here
    isLoading,
    isEditing,
    editPrompt,
    error,
    history,
    gens,              \* handleGenerate invocations suspended at an await
    edits,             \* handleEdit invocations suspended at the await
    evt,               \* the handler or callback that ran last (observer)
    lastEdit,          \* the prompt of the last edit that succeeded (observer)
    faceSourceIndex,   \* the upload position used as face source, NoIndex for null
    \* Gateway (services/geminiService)
    response,          \* the GenerateContentResponse under validation
    outcome,           \* what the Gateway call made of it: a data URL or an Error
    blob,              \* resizeImageBlob: width and height of the image loaded
    canvas,            \* resizeImageBlob: width and height of the canvas drawn
    \* LiveChat (src/unnamed/part_002)
    isLiveChatOpen,    \* App: the component is mounted
    status,
    transcript,
    currentInput,
    currentOutput,
    effectDeps,        \* the accumulator values startSession was last built with
    sessions,          \* startSession invocations: position, closure, resources
    sessionRef,        \* refs hold the index of the invocation that made the
    audioContextRef,   \*   object, 0 for null
    outputAudioContextRef,
    scriptProcessorRef, \* mediaStreamSourceRef is set and cleared along with it
    nextStartTimeRef,
    sourcesRef,        \* indices into sources
    decoding,          \* onmessage invocations suspended at await decodeAudioData
    sources,           \* the AudioBufferSourceNodes started so far
    currentTime,       \* outputAudioContextRef.current.currentTime
    arrived,           \* number of audio chunks received (observer)
    \* Chatbot (src/components/Chatbot.tsx)
    isChatbotOpen,     \* App: the component is mounted
    messages,          \* a JS value: [isArray, items, json]
    input,
    isStreaming,
    chatError,         \* the error state of Chatbot
    storage,           \* localStorage item 'aiStylistChatHistory': [present, text]
    stream,            \* handleSendMessage past its first await: position, aiResponseText
    inProgress,        \* index of the message made for the stream, 0 if none is
                       \*   in the list (observer)
    savedList          \* the list the stored text was written from (observer)

\* the state of App except the observer evt
appState == <<originalImages, modelDescription, isLookbookMode, generatedImages,
              isLoading, isEditing, editPrompt, error, history, gens, edits,
              lastEdit, faceSourceIndex>>
gatewayVars == <<response, outcome, blob, canvas>>
\* the React state of LiveChat
liveState == <<status, transcript, currentInput, currentOutput>>
\* its refs, and the objects they refer to
liveRefs == <<sessionRef, audioContextRef, outputAudioContextRef, scriptProcessorRef,
              sourcesRef>>
playback == <<nextStartTimeRef, decoding, sources, currentTime, arrived>>
liveVars == <<isLiveChatOpen, liveState, effectDeps, sessions, liveRefs, playback>>
chatVars == <<isChatbotOpen, messages, input, isStreaming, chatError, storage, stream,
              inProgress, savedList>>
\* the state of the components that App's own handlers never touch
outside == <<gatewayVars, liveVars, chatVars>>

vars == <<appState, evt, outside>>

\* ------------------------------------------------------------- helpers
IsImage(v) == v \in Images

\* newImages = [...prev]; newImages[i] = v  (i is the 0-based index)
SetAt(s, i, v) ==
    [k \in 1 .. (IF i + 1 > Len(s) THEN i + 1 ELSE Len(s)) |->
        IF k = i + 1 THEN v
        ELSE IF k <= Len(s) THEN s[k]
        ELSE "undefined"]

\* mutant of PushHistory: the new image goes to the end of the list
PushHistoryAtEnd(img, h) ==
    SubSeq(h \o <<img>>, 1,
           IF Len(h) + 1 > HISTORY_MAX THEN HISTORY_MAX ELSE Len(h) + 1)

\* [img, ...prev].slice(0, 5)
PushHistory(img, h) == SubSeq(<<img>> \o h, 1,
                              IF Len(h) + 1 > HISTORY_MAX THEN HISTORY_MAX ELSE Len(h) + 1)

RemoveAt(s, k) == [j \in 1 .. (Len(s) - 1) |-> IF j < k THEN s[j] ELSE s[j + 1]]

hasImages == \E i \in DOMAIN originalImages : originalImages[i]

\* generatedImages.length > 0 && typeof generatedImages[0] === 'string' ? generatedImages[0] : null
imageToEdit ==
    IF Len(generatedImages) > 0 /\ generatedImages[1] # "undefined"
    THEN generatedImages[1] ELSE "null"

\* the useEffect on [hasImages, modelDescription]
DescriptionEffect(has, d) ==
    IF ~has /\ d = INITIAL_MODEL_DESCRIPTION THEN ""
    ELSE IF has /\ d = "" THEN INITIAL_MODEL_DESCRIPTION
    ELSE d

\* mutant of JoinReady: the continuation runs once one variant call has settled
JoinReadyRace(k) == gens[k].pc = "variants" /\ Cardinality(gens[k].calls) < Cardinality(VariantSlots)

\* the continuation of `await Promise.all(variationPromises)` is queued: it
\* runs before the event loop takes any other task
JoinReady(k) == gens[k].pc = "variants" /\ gens[k].calls = {}
Runnable == \A k \in 1 .. Len(gens) : ~JoinReady(k)

\* note: for a successful edit, the prompt of the edit that succeeded before it
Event(k, img, slot) == [kind |-> k, img |-> img, slot |-> slot, note |-> ""]
EditEvent(k, img, before) == [kind |-> k, img |-> img, slot |-> 0, note |-> before]

\* no Gateway response is under validation
NoResponse == [blockReason |-> "", promptRatings |-> <<>>, candidates |-> <<>>]
Pending == [ok |-> FALSE, kind |-> "pending", msg |-> "", detail |-> "", category |-> ""]
\* no image is loaded, no canvas is made
NoImage == [width |-> 0, height |-> 0]
ResizeIdle == blob = NoImage /\ canvas = NoImage
GatewayIdle == response = NoResponse /\ outcome = Pending /\ ResizeIdle

\* LiveChat is not mounted: isLiveChatOpen is false, the useState and useRef
\* initial values
LiveChatClosed ==
    /\ isLiveChatOpen = FALSE
    /\ status = "IDLE"
    /\ transcript = <<>>
    /\ currentInput = ""
    /\ currentOutput = ""
    /\ effectDeps = <<"", "">>
    /\ sessions = <<>>
    /\ sessionRef = 0
    /\ audioContextRef = 0
    /\ outputAudioContextRef = 0
    /\ scriptProcessorRef = 0
    /\ nextStartTimeRef = 0
    /\ sourcesRef = {}
    /\ decoding = {}
    /\ sources = <<>>
    /\ currentTime = 0
    /\ arrived = 0

\* a JS array of messages, and a JS value that is not an array
Arr(items) == [isArray |-> TRUE, items |-> items, json |-> ""]
NonArr(json) == [isArray |-> FALSE, items |-> <<>>, json |-> json]
NoStream == [pc |-> "idle", text |-> "", groundingChunks |-> "[]"]

\* Chatbot is not mounted and no text is stored
ChatbotUnmounted ==
    /\ isChatbotOpen = FALSE
    /\ messages = Arr(<<>>)
    /\ input = ""
    /\ isStreaming = FALSE
    /\ chatError = "null"
    /\ stream = NoStream
    /\ inProgress = 0
ChatbotClosed ==
    /\ ChatbotUnmounted
    /\ storage = [present |-> FALSE, text |-> <<>>]
    /\ savedList = [valid |-> FALSE, list |-> <<>>]

\* the components outside App's handlers, before any of them is used
Elsewhere == GatewayIdle /\ LiveChatClosed /\ ChatbotClosed

AppIdle ==
    /\ originalImages = [i \in UploadSlots |-> FALSE]
    /\ modelDescription = DescriptionEffect(FALSE, INITIAL_MODEL_DESCRIPTION)
    /\ isLookbookMode = FALSE
    /\ generatedImages = <<>>
    /\ isLoading = FALSE
    /\ isEditing = FALSE
    /\ editPrompt = ""
    /\ error = NoError
    /\ history = <<>>
    /\ gens = <<>>
    /\ edits = <<>>
    /\ evt = Event("init", "none", 0)
    /\ lastEdit = ""
    /\ faceSourceIndex = NoIndex

Init == AppIdle /\ Elsewhere

\* ------------------------------------------------------------ UI events
\* handleImageUpload(index), followed by the description effect
Upload(i) ==
    /\ Runnable
    /\ originalImages' = [originalImages EXCEPT ![i] = TRUE]
    /\ modelDescription' = DescriptionEffect(TRUE, modelDescription)
    /\ evt' = Event("ui", "none", 0)
    /\ UNCHANGED outside
    /\ UNCHANGED <<isLookbookMode, generatedImages, isLoading, isEditing,
                   editPrompt, error, history, gens, edits, lastEdit, faceSourceIndex>>

\* mutant of Delete: the face source is left as it is
DeleteKeepsFaceSource(i) ==
    /\ Runnable
    /\ originalImages[i]
    /\ originalImages' = [originalImages EXCEPT ![i] = FALSE]
    /\ modelDescription' =
           DescriptionEffect(\E j \in DOMAIN originalImages : originalImages'[j], modelDescription)
    /\ evt' = Event("ui", "none", 0)
    /\ UNCHANGED outside
    /\ UNCHANGED <<isLookbookMode, generatedImages, isLoading, isEditing,
                   editPrompt, error, history, gens, edits, lastEdit, faceSourceIndex>>

\* handleImageDelete(index), followed by the description effect
Delete(i) ==
    /\ Runnable
    /\ originalImages[i]
    /\ originalImages' = [originalImages EXCEPT ![i] = FALSE]
    /\ modelDescription' =
           DescriptionEffect(\E j \in DOMAIN originalImages : originalImages'[j], modelDescription)
    /\ faceSourceIndex' = IF faceSourceIndex = i THEN NoIndex ELSE faceSourceIndex
    /\ evt' = Event("ui", "none", 0)
    /\ UNCHANGED outside
    /\ UNCHANGED <<isLookbookMode, generatedImages, isLoading, isEditing,
                   editPrompt, error, history, gens, edits, lastEdit>>

\* onChange of the description text area (also the suggestion button, speech
\* input and handleLiveChatComplete), followed by the description effect
SetDescription(d) ==
    /\ Runnable
    /\ modelDescription' = DescriptionEffect(hasImages, d)
    /\ modelDescription' # modelDescription
    /\ evt' = Event("ui", "none", 0)
    /\ UNCHANGED outside
    /\ UNCHANGED <<originalImages, isLookbookMode, generatedImages, isLoading,
                   isEditing, editPrompt, error, history, gens, edits, lastEdit,
                   faceSourceIndex>>

\* the lookbook ToggleSwitch
ToggleLookbook ==
    /\ Runnable
    /\ isLookbookMode' = ~isLookbookMode
    /\ evt' = Event("ui", "none", 0)
    /\ UNCHANGED outside
    /\ UNCHANGED <<originalImages, modelDescription, generatedImages, isLoading,
                   isEditing, editPrompt, error, history, gens, edits, lastEdit,
                   faceSourceIndex>>

\* the edit panel is rendered when !isLookbookMode && imageToEdit
EditPanelShown == ~isLookbookMode /\ imageToEdit # "null"

\* onChange of the edit input
SetEditPrompt(p) ==
    /\ Runnable
    /\ EditPanelShown
    /\ p # editPrompt
    /\ editPrompt' = p
    /\ evt' = Event("ui", "none", 0)
    /\ UNCHANGED outside
    /\ UNCHANGED <<originalImages, modelDescription, isLookbookMode, generatedImages,
                   isLoading, isEditing, error, history, gens, edits, lastEdit, faceSourceIndex>>

\* handleReset
handleReset ==
    /\ Runnable
    /\ originalImages' = [i \in DOMAIN originalImages |-> FALSE]
    /\ modelDescription' = ""
    /\ faceSourceIndex' = NoIndex
    /\ generatedImages' = <<>>
    /\ error' = NoError
    /\ evt' = Event("ui", "none", 0)
    /\ UNCHANGED outside
    /\ UNCHANGED <<isLookbookMode, isLoading, isEditing, editPrompt, history,
                   gens, edits, lastEdit>>

\* click on entry h of the history strip
RestoreFromHistory(h) ==
    /\ Runnable
    /\ generatedImages' = <<history[h]>>
    /\ isLookbookMode' = FALSE
    /\ evt' = Event("ui", "none", 0)
    /\ UNCHANGED outside
    /\ UNCHANGED <<originalImages, modelDescription, isLoading, isEditing,
                   editPrompt, error, history, gens, edits, lastEdit, faceSourceIndex>>

\* ------------------------------------------------------------- generate
\* mutant of GenerateDisabled: the button stays enabled while loading
GenerateDisabledNoLoading == ~hasImages /\ modelDescription = ""

\* the `disabled` attribute of the Generate button
GenerateDisabled == isLoading \/ (~hasImages /\ modelDescription = "")

\* the state a new handleGenerate invocation is suspended in at
\* `await generateBaseImage()`; `failed` collects the slots whose variant call
\* was rejected
NewGenerate ==
    [pc |-> "base", lookbook |-> isLookbookMode,
     via |-> IF hasImages THEN "refs" ELSE "text",
     base |-> "none", calls |-> {}, failed |-> {}]

\* mutant of LoadingSlots: only the base slot is set to Loading
LoadingSlotsBaseOnly(lookbook) == <<"loading">>

\* Array(4).fill('loading') or ['loading']
LoadingSlots(lookbook) ==
    IF lookbook THEN [k \in 1 .. LOOKBOOK_SLOTS |-> "loading"] ELSE <<"loading">>

\* mutant of handleGenerate: no validation of the input
handleGenerateNoValidation ==
    /\ error' = NoError
    /\ isLoading' = TRUE
    /\ generatedImages' = LoadingSlots(isLookbookMode)
    /\ gens' = Append(gens, NewGenerate)
    /\ evt' = Event("generate", "none", 0)
    /\ UNCHANGED outside
    /\ UNCHANGED <<originalImages, modelDescription, isLookbookMode,
                   isEditing, editPrompt, history, edits, lastEdit, faceSourceIndex>>

\* handleGenerate up to its first await
handleGenerate ==
    IF ~hasImages /\ modelDescription = ""
    THEN /\ error' = ValidationMessage
         /\ evt' = Event("invalid", "none", 0)
         /\ UNCHANGED outside
         /\ UNCHANGED <<originalImages, modelDescription, isLookbookMode,
                        generatedImages, isLoading, isEditing, editPrompt,
                        history, gens, edits, lastEdit, faceSourceIndex>>
    ELSE /\ error' = NoError
         /\ isLoading' = TRUE
         /\ generatedImages' = LoadingSlots(isLookbookMode)
         /\ gens' = Append(gens, NewGenerate)
         /\ evt' = Event("generate", "none", 0)
         /\ UNCHANGED outside
         /\ UNCHANGED <<originalImages, modelDescription, isLookbookMode,
                        isEditing, editPrompt, history, edits, lastEdit, faceSourceIndex>>

\* click on the Generate button
ClickGenerate ==
    /\ Runnable
    /\ ~GenerateDisabled
    /\ Len(gens) < MaxGeneratesInFlight
    /\ handleGenerate

\* mutant of VariantCalls: the calls take the image of the rendered slot 0
VariantCallsFromSlot(baseImage) ==
    {[slot |-> i, input |-> imageToEdit] : i \in VariantSlots}

\* the three editImage(base64Data, mimeType, variationPrompt, null) calls issued
\* by [1, 2, 3].map(...), each with the slot its callbacks write
VariantCalls(baseImage) == {[slot |-> i, input |-> baseImage] : i \in VariantSlots}

\* generateBaseImage() resolved with img: the continuation of handleGenerate up
\* to `await Promise.all(...)` (lookbook) or to its end (single image)
BaseSuccess(k, img) ==
    /\ Runnable
    /\ gens[k].pc = "base"
    /\ generatedImages' = SetAt(generatedImages, 0, img)
    /\ history' = PushHistory(img, history)
    /\ IF gens[k].lookbook
       THEN /\ gens' = [gens EXCEPT ![k] = [@ EXCEPT !.pc = "variants", !.base = img,
                                                    !.calls = VariantCalls(img)]]
            /\ UNCHANGED isLoading
       ELSE /\ gens' = RemoveAt(gens, k)
            /\ isLoading' = FALSE
    /\ evt' = Event("baseOk", img, 0)
    /\ UNCHANGED outside
    /\ UNCHANGED <<originalImages, modelDescription, isLookbookMode, isEditing,
                   editPrompt, error, edits, lastEdit, faceSourceIndex>>

\* mutant of BaseFail: the slot sequence is not cleared
BaseFailKeepsSlots(k) ==
    /\ Runnable
    /\ gens[k].pc = "base"
    /\ error' = GatewayMessage
    /\ isLoading' = FALSE
    /\ gens' = RemoveAt(gens, k)
    /\ evt' = Event("baseFail", "none", 0)
    /\ UNCHANGED outside
    /\ UNCHANGED <<originalImages, modelDescription, isLookbookMode, isEditing,
                   editPrompt, history, edits, lastEdit, generatedImages,
                   faceSourceIndex>>

\* generateBaseImage() rejected: the catch and finally blocks
BaseFail(k) ==
    /\ Runnable
    /\ gens[k].pc = "base"
    /\ error' = GatewayMessage
    /\ generatedImages' = <<>>
    /\ isLoading' = FALSE
    /\ gens' = RemoveAt(gens, k)
    /\ evt' = Event("baseFail", "none", 0)
    /\ UNCHANGED outside
    /\ UNCHANGED <<originalImages, modelDescription, isLookbookMode, isEditing,
                   editPrompt, history, edits, lastEdit, faceSourceIndex>>

\* the .then callback of the variant call c
VariantSuccess(k, c, img) ==
    /\ Runnable
    /\ gens[k].pc = "variants"
    /\ c \in gens[k].calls
    /\ generatedImages' = SetAt(generatedImages, c.slot, img)
    /\ gens' = [gens EXCEPT ![k].calls = @ \ {c}]
    /\ evt' = Event("variantOk", img, c.slot)
    /\ UNCHANGED outside
    /\ UNCHANGED <<originalImages, modelDescription, isLookbookMode, isLoading,
                   isEditing, editPrompt, error, history, edits, lastEdit, faceSourceIndex>>

\* the .catch callback of the variant call c
VariantFail(k, c) ==
    /\ Runnable
    /\ gens[k].pc = "variants"
    /\ c \in gens[k].calls
    /\ generatedImages' = SetAt(generatedImages, c.slot, "error")
    /\ gens' = [gens EXCEPT ![k].calls = @ \ {c}, ![k].failed = @ \cup {c.slot}]
    /\ evt' = Event("variantFail", "none", c.slot)
    /\ UNCHANGED outside
    /\ UNCHANGED <<originalImages, modelDescription, isLookbookMode, isLoading,
                   isEditing, editPrompt, error, history, edits, lastEdit, faceSourceIndex>>

\* Promise.all resolved: the finally block
Join(k) ==
    /\ JoinReady(k)
    /\ isLoading' = FALSE
    /\ gens' = RemoveAt(gens, k)
    /\ evt' = Event("join", "none", 0)
    /\ UNCHANGED outside
    /\ UNCHANGED <<originalImages, modelDescription, isLookbookMode,
                   generatedImages, isEditing, editPrompt, error, history, edits, lastEdit,
                   faceSourceIndex>>

\* ----------------------------------------------------------------- edit
\* faceSourceIndex !== null ? originalImages[faceSourceIndex] : null, an
\* image being named by its position
faceSourceImage ==
    IF faceSourceIndex # NoIndex /\ originalImages[faceSourceIndex]
    THEN faceSourceIndex ELSE NoIndex

\* handleEdit up to `await editImage(...)`
handleEdit ==
    /\ imageToEdit # "null"
    /\ editPrompt # ""
    /\ error' = NoError
    /\ isEditing' = TRUE
    /\ edits' = Append(edits, [input |-> imageToEdit, prompt |-> editPrompt,
                                face |-> faceSourceImage])
    /\ evt' = Event("edit", "none", 0)
    /\ UNCHANGED outside
    /\ UNCHANGED <<originalImages, modelDescription, isLookbookMode,
                   generatedImages, isLoading, editPrompt, history, gens, lastEdit, faceSourceIndex>>

\* click on the edit button (disabled={isEditing || !editPrompt})
ClickEdit ==
    /\ Runnable
    /\ EditPanelShown
    /\ ~(isEditing \/ editPrompt = "")
    /\ Len(edits) < MaxEditsInFlight
    /\ handleEdit

\* Enter in the edit input (onKeyDown)
EnterEdit ==
    /\ Runnable
    /\ EditPanelShown
    /\ Len(edits) < MaxEditsInFlight
    /\ handleEdit

\* mutant of EditSuccess: the result is written to slot 0 of the current sequence
EditSuccessInPlace(j, img) ==
    /\ Runnable
    /\ generatedImages' = SetAt(generatedImages, 0, img)
    /\ history' = PushHistory(img, history)
    /\ editPrompt' = ""
    /\ isEditing' = FALSE
    /\ edits' = RemoveAt(edits, j)
    /\ evt' = EditEvent("editOk", img, lastEdit)
    /\ UNCHANGED outside
    /\ lastEdit' = edits[j].prompt
    /\ UNCHANGED <<originalImages, modelDescription, isLookbookMode, isLoading,
                   error, gens, faceSourceIndex>>

\* editImage resolved with img
EditSuccess(j, img) ==
    /\ Runnable
    /\ generatedImages' = <<img>>
    /\ history' = PushHistory(img, history)
    /\ editPrompt' = ""
    /\ isEditing' = FALSE
    /\ edits' = RemoveAt(edits, j)
    /\ evt' = EditEvent("editOk", img, lastEdit)
    /\ UNCHANGED outside
    /\ lastEdit' = edits[j].prompt
    /\ UNCHANGED <<originalImages, modelDescription, isLookbookMode, isLoading,
                   error, gens, faceSourceIndex>>

\* mutant of EditFail: the failure is handled like that of a base call
EditFailClearsSlots(j) ==
    /\ Runnable
    /\ error' = GatewayMessage
    /\ generatedImages' = <<>>
    /\ isEditing' = FALSE
    /\ edits' = RemoveAt(edits, j)
    /\ evt' = Event("editFail", "none", 0)
    /\ UNCHANGED outside
    /\ UNCHANGED <<originalImages, modelDescription, isLookbookMode,
                   isLoading, editPrompt, history, gens, lastEdit, faceSourceIndex>>

\* editImage rejected
EditFail(j) ==
    /\ Runnable
    /\ error' = GatewayMessage
    /\ isEditing' = FALSE
    /\ edits' = RemoveAt(edits, j)
    /\ evt' = Event("editFail", "none", 0)
    /\ UNCHANGED outside
    /\ UNCHANGED <<originalImages, modelDescription, isLookbookMode,
                   generatedImages, isLoading, editPrompt, history, gens, lastEdit, faceSourceIndex>>

\* ------------------------------------------------------- specifications
OneImage == {"imgA"}
OnePrompt == {"p1"}

\* the events of the upload grid
UploadStep ==
    \/ \E i \in UploadSlots : Upload(i)
    \/ \E i \in UploadSlots : Delete(i)

\* the description field
DescribeStep == \E d \in {"", "text"} : SetDescription(d)

\* reset, and the click on a history entry
ReplaceStep ==
    \/ handleReset
    \/ \E h \in 1 .. Len(history) : RestoreFromHistory(h)

\* the edit panel; P is the set of texts typed into the edit input
EditStep(P) ==
    \/ \E p \in P \cup {""} : SetEditPrompt(p)
    \/ ClickEdit
    \/ EnterEdit

\* the completions of the base call; B is the set of images it returns
BaseDone(B) ==
    \/ \E k \in 1 .. Len(gens), img \in B : BaseSuccess(k, img)
    \/ \E k \in 1 .. Len(gens) : BaseFail(k)

\* the completions of the variant calls and the join
VariantDone(V) ==
    \/ \E k \in 1 .. Len(gens) : \E c \in gens[k].calls, img \in V :
           VariantSuccess(k, c, img)
    \/ \E k \in 1 .. Len(gens) : \E c \in gens[k].calls : VariantFail(k, c)
    \/ \E k \in 1 .. Len(gens) : Join(k)

\* the completions of the edit calls
EditDone(E) ==
    \/ \E j \in 1 .. Len(edits), img \in E : EditSuccess(j, img)
    \/ \E j \in 1 .. Len(edits) : EditFail(j)

\* every event of the program but the choice of a face source, with one
\* image and one prompt
Next ==
    \/ UploadStep
    \/ DescribeStep
    \/ ToggleLookbook
    \/ ReplaceStep
    \/ ClickGenerate
    \/ EditStep(OnePrompt)
    \/ BaseDone(OneImage)
    \/ VariantDone(OneImage)
    \/ EditDone(OneImage)

Spec == Init /\ [][Next]_vars

\* App after the user has typed a description
AppTyped ==
    /\ originalImages = [i \in UploadSlots |-> FALSE]
    /\ modelDescription = "text"
    /\ isLookbookMode = FALSE
    /\ generatedImages = <<>>
    /\ isLoading = FALSE
    /\ isEditing = FALSE
    /\ editPrompt = ""
    /\ error = NoError
    /\ history = <<>>
    /\ gens = <<>>
    /\ edits = <<>>
    /\ evt = Event("ui", "none", 0)
    /\ lastEdit = ""
    /\ faceSourceIndex = NoIndex

InitData == AppTyped /\ Elsewhere

\* generate, lookbook and edit, where base and edit calls return two images
NextData ==
    \/ ToggleLookbook
    \/ ClickGenerate
    \/ EditStep(OnePrompt)
    \/ BaseDone(Images)
    \/ VariantDone(OneImage)
    \/ EditDone(Images)

SpecData == InitData /\ [][NextData]_vars

\* generate, lookbook and edit, where the user types two prompts and edit
\* calls return two images
NextEdit ==
    \/ ToggleLookbook
    \/ ClickGenerate
    \/ EditStep(Prompts)
    \/ BaseDone(OneImage)
    \/ VariantDone(OneImage)
    \/ EditDone(Images)

SpecEdit == InitData /\ [][NextEdit]_vars

\* handleGenerate called where the Generate button is disabled for lack of input
CallGenerateEmpty ==
    /\ Runnable
    /\ ~hasImages /\ modelDescription = ""
    /\ handleGenerate

\* the upload grid, the description, reset, generate and lookbook, and the
\* direct call
NextCall ==
    \/ UploadStep
    \/ DescribeStep
    \/ ToggleLookbook
    \/ ReplaceStep
    \/ ClickGenerate
    \/ CallGenerateEmpty
    \/ BaseDone(OneImage)
    \/ VariantDone(OneImage)

SpecCall == Init /\ [][NextCall]_vars

\* generate and lookbook with reset and history restore, where every pending
\* Gateway call settles and the queued continuation runs
NextLive ==
    \/ ToggleLookbook
    \/ ReplaceStep
    \/ ClickGenerate
    \/ BaseDone(OneImage)
    \/ VariantDone(OneImage)

SpecLive ==
    /\ InitData
    /\ [][NextLive]_vars
    /\ WF_vars(BaseDone(OneImage))
    /\ WF_vars(VariantDone(OneImage))

\* ---------------------------------------------------------------- claims
\* a slot that is Ready (an image) or Failed ('error')
SlotSettled(v) == IsImage(v) \/ v = "error"

\* the step in which a generate operation whose base call succeeded settles
GenerateSettles == isLoading /\ ~isLoading' /\ evt'.kind \in {"baseOk", "join"}

\* C1: when a generate operation whose base call succeeded settles, the slot
\* sequence has one base slot and N variant slots (N = 3 in lookbook mode,
\* else 0), each Ready or Failed.
C1_SettledSlots ==
    [][GenerateSettles /\ Len(gens) = 1 =>
          /\ Len(generatedImages') = (IF gens[1].lookbook THEN LOOKBOOK_SLOTS ELSE 1)
          /\ \A i \in 1 .. Len(generatedImages') : SlotSettled(generatedImages'[i])]_vars

\* C2: after the base call failed the slot sequence is empty, isLoading is
\* false, the error is set and the operation has no call left to issue.
C2_BaseFailureAborts ==
    evt.kind = "baseFail" =>
        /\ generatedImages = <<>>
        /\ ~isLoading
        /\ error = GatewayMessage
        /\ gens = <<>>

C2_Witness ==
    /\ evt.kind = "baseFail"
    /\ history # <<>>
    /\ isLookbookMode

\* C3: when a lookbook generate settles, exactly the variant slots whose call
\* failed are Failed and the other slots are Ready; a variant failure leaves
\* the error alone and does not clear the slot sequence.
C3_VariantIndependence ==
    [][/\ (evt'.kind = "join" /\ Len(gens) = 1 =>
              /\ Len(generatedImages') = LOOKBOOK_SLOTS
              /\ IsImage(generatedImages'[1])
              /\ \A i \in VariantSlots :
                    IF i \in gens[1].failed
                    THEN generatedImages'[i + 1] = "error"
                    ELSE IsImage(generatedImages'[i + 1]))
       /\ (evt'.kind = "variantFail" =>
              error' = error /\ generatedImages' # <<>>)]_vars

\* a Gateway call of some generate operation has not settled yet
CallPending == \E k \in 1 .. Len(gens) : gens[k].pc = "base" \/ gens[k].calls # {}

\* C4: isLoading is true while the base call or a variant call is pending, it
\* is cleared only in a step before which none was pending, and it is cleared
\* eventually.
C4_JoinSemantics ==
    /\ [](CallPending => isLoading)
    /\ [][isLoading /\ ~isLoading' =>
             \A k \in 1 .. Len(gens) : gens[k].calls = {}]_vars
    /\ (isLoading ~> ~isLoading)

C4_Witness ==
    /\ isLoading
    /\ Len(gens) = 1
    /\ gens[1].pc = "variants"
    /\ Cardinality(gens[1].calls) = 1
    /\ gens[1].failed # {}

\* C5: variant calls exist only for an operation whose base call returned,
\* they carry the image it returned, and they are issued in the step that
\* writes that image to slot 0.
C5_BaseBeforeVariants ==
    /\ \A k \in 1 .. Len(gens) :
          /\ gens[k].pc = "base" => gens[k].calls = {} /\ gens[k].base = "none"
          /\ gens[k].pc = "variants" =>
                /\ IsImage(gens[k].base)
                /\ \A c \in gens[k].calls : c.input = gens[k].base
    /\ evt.kind = "baseOk" =>
          /\ Len(generatedImages) >= 1 /\ generatedImages[1] = evt.img
          /\ \A k \in 1 .. Len(gens) :
                /\ gens[k].base = evt.img
                /\ {c.slot : c \in gens[k].calls} = VariantSlots
                /\ \A c \in gens[k].calls : c.input = evt.img

C5_Witness ==
    /\ evt.kind = "baseOk"
    /\ Len(gens) = 1
    /\ Cardinality(gens[1].calls) = 3
    /\ Len(history) >= 2
    /\ history[2] # evt.img

\* C6: at most one generate operation is in flight, a generate starts only
\* when none is pending, and a pending one ends only by settling.
C6_OneGenerateInFlight ==
    /\ [](Len(gens) <= 1 /\ (gens # <<>> => isLoading))
    /\ [][/\ (evt'.kind = "generate" => ~isLoading /\ gens = <<>>)
          /\ (Len(gens') < Len(gens) => evt'.kind \in {"baseOk", "baseFail", "join"})]_vars

C6_Witness ==
    /\ Len(gens) = 1
    /\ isLoading
    /\ modelDescription # ""
    /\ generatedImages = <<>>
    /\ evt.kind = "ui"

\* C7: an edit request is issued only when the slot sequence is exactly one
\* Ready slot.
C7_EditOnlyOnSingleReady ==
    evt.kind = "edit" => Len(generatedImages) = 1 /\ IsImage(generatedImages[1])

\* C8: after an edit succeeds the slot sequence is exactly the one slot that
\* holds its result, also for the second of two edits made in sequence with
\* different prompts.
C8_EditSingleSlot ==
    evt.kind = "editOk" => generatedImages = <<evt.img>>

\* the second of two edits in sequence, with another prompt and another result
C8_Witness ==
    /\ evt.kind = "editOk"
    /\ lastEdit = "p2"
    /\ evt.note = "p1"
    /\ evt.img = "imgB"
    /\ Len(history) >= 2
    /\ history[2] = "imgA"

\* C9: handleGenerate without an image and without a description sets the
\* validation error and nothing else: no call, isLoading and the slots as before.
C9_ValidationFailsFast ==
    [][/\ (evt'.kind = "invalid" =>
              /\ error' = ValidationMessage
              /\ UNCHANGED <<isLoading, generatedImages, gens, edits, history>>)
       /\ (evt'.kind = "generate" => hasImages \/ modelDescription # "")]_vars

C9_Witness ==
    /\ evt.kind = "invalid"
    /\ error = ValidationMessage
    /\ ~isLoading
    /\ generatedImages # <<>>

\* C10: the history has at most 5 entries; a successful base generation or
\* edit puts its image first, keeps the earlier entries in order and drops the
\* oldest beyond 5; no other step changes the history.
C10_HistoryBounded ==
    /\ [](Len(history) <= HISTORY_MAX)
    /\ [][/\ (history' # history => evt'.kind \in {"baseOk", "editOk"})
          /\ (evt'.kind \in {"baseOk", "editOk"} =>
                 /\ Len(history') = (IF Len(history) < HISTORY_MAX
                                     THEN Len(history) + 1 ELSE HISTORY_MAX)
                 /\ history'[1] = evt'.img
                 /\ \A i \in 2 .. Len(history') : history'[i] = history[i - 1])]_vars

C10_Witness ==
    /\ evt.kind = "editOk"
    /\ Len(history) = HISTORY_MAX
    /\ history[1] = evt.img
    /\ history[2] # history[1]
    /\ history[HISTORY_MAX] # history[2]

\* ================================================================ Gateway
\* Result validation of generateTryOnImage and editImage
\* (src/unnamed/part_003): what the call makes of the response it awaited.

\* longest parts list of a candidate that is modelled
MaxParts == 2

\* a part of candidate.content.parts; mimeType = "" where the part has no
\* inlineData, hasText = FALSE where it has no text field
ImageParts ==
    {[mimeType |-> "image/png", data |-> "AAA", hasText |-> FALSE, text |-> ""],
     [mimeType |-> "image/jpeg", data |-> "BBB", hasText |-> FALSE, text |-> ""]}
TextParts ==
    {[mimeType |-> "", data |-> "", hasText |-> TRUE, text |-> t] : t \in {"", "sorry", "no"}}
PartLists == UNION {[1 .. n -> ImageParts \cup TextParts] : n \in 0 .. MaxParts}

\* safetyRatings lists: absent, only low, low then high, high then medium
RatingLists ==
    {<<>>,
     <<[category |-> "HATE", probability |-> "LOW"]>>,
     <<[category |-> "HATE", probability |-> "NEGLIGIBLE"],
       [category |-> "SEXUAL", probability |-> "HIGH"]>>,
     <<[category |-> "DANGEROUS", probability |-> "HIGH"],
       [category |-> "HATE", probability |-> "MEDIUM"]>>}

\* candidate.finishReason; "" where the field is absent, "OTHER" and
\* "LANGUAGE" for the values the switch has no case for
FinishReasons == {"", "STOP", "FINISH_REASON_UNSPECIFIED", "SAFETY", "MAX_TOKENS",
                  "RECITATION", "NO_IMAGE", "OTHER", "LANGUAGE"}
\* promptFeedback?.blockReason; "" where the field is absent
BlockReasons == {"", "SAFETY"}

Candidates == [finishReason : FinishReasons, safetyRatings : RatingLists,
               parts : PartLists]
Responses == [blockReason : BlockReasons, promptRatings : RatingLists,
              candidates : {<<>>} \cup {<<c>> : c \in Candidates}]

\* throw new Error(message): kind names the failure, msg the message text
Failure(kind, msg, detail, category) ==
    [ok |-> FALSE, kind |-> kind, msg |-> msg, detail |-> detail, category |-> category]
\* return `data:${mimeType};base64,${data}`
DataUrl(part) == "data:" \o part.mimeType \o ";base64," \o part.data
Success(part) ==
    [ok |-> TRUE, kind |-> "image", msg |-> "", detail |-> DataUrl(part), category |-> ""]

\* r.probability !== 'NEGLIGIBLE' && r.probability !== 'LOW'
Harmful(r) == r.probability # "NEGLIGIBLE" /\ r.probability # "LOW"
\* safetyRatings?.find(...)?.category, "" where find returns undefined
FindHarmful(ratings) ==
    IF \E i \in 1 .. Len(ratings) : Harmful(ratings[i])
    THEN ratings[CHOOSE i \in 1 .. Len(ratings) :
                     /\ Harmful(ratings[i])
                     /\ \A j \in 1 .. (i - 1) : ~Harmful(ratings[j])].category
    ELSE ""

\* "Yêu cầu bị chặn vì lý do: ..." with the harmful category where one is found
BlockedError(resp) ==
    Failure("ContentBlocked", "blocked", resp.blockReason, FindHarmful(resp.promptRatings))

\* mutant of validFinishReasons: MAX_TOKENS is accepted too
validFinishReasonsWithMaxTokens == {"STOP", "FINISH_REASON_UNSPECIFIED", "MAX_TOKENS"}

\* new Set(['STOP', 'FINISH_REASON_UNSPECIFIED'])
validFinishReasons == {"STOP", "FINISH_REASON_UNSPECIFIED"}

\* switch (candidate.finishReason)
FinishReasonError(c, noImageMsg) ==
    CASE c.finishReason = "SAFETY" ->
             Failure("SafetyBlocked", "safety", "", FindHarmful(c.safetyRatings))
      [] c.finishReason = "MAX_TOKENS" -> Failure("TruncatedByLength", "maxTokens", "", "")
      [] c.finishReason = "RECITATION" -> Failure("RecitationBlocked", "recitation", "", "")
      [] c.finishReason = "NO_IMAGE" -> Failure("NoImageProduced", noImageMsg, "", "")
      [] OTHER -> Failure("IncompleteGeneration", "incomplete", c.finishReason, "")

HasInlineData(part) == part.mimeType # ""
\* if (part.text): a text field that is not the empty string
HasText(part) == part.hasText /\ part.text # ""
First(parts, P(_)) ==
    parts[CHOOSE i \in 1 .. Len(parts) : P(parts[i]) /\ \A j \in 1 .. (i - 1) : ~P(parts[j])]

\* mutant of ScanParts: the text loop runs before the image loop
ScanPartsTextFirst(parts) ==
    IF \E i \in 1 .. Len(parts) : HasText(parts[i])
    THEN Failure("UnexpectedTextResponse", "text", First(parts, HasText).text, "")
    ELSE IF \E i \in 1 .. Len(parts) : HasInlineData(parts[i])
    THEN Success(First(parts, HasInlineData))
    ELSE Failure("EmptyResult", "noImage", "", "")

\* the two loops over candidate.content.parts and the final throw
ScanParts(parts) ==
    IF \E i \in 1 .. Len(parts) : HasInlineData(parts[i])
    THEN Success(First(parts, HasInlineData))
    ELSE IF \E i \in 1 .. Len(parts) : HasText(parts[i])
    THEN Failure("UnexpectedTextResponse", "text", First(parts, HasText).text, "")
    ELSE Failure("EmptyResult", "noImage", "", "")

\* mutant of ValidateResult: the candidate is looked at before the block reason
ValidateResultCandidateFirst(resp, noImageMsg) ==
    IF resp.candidates = <<>> THEN Failure("EmptyResult", "noCandidate", "", "")
    ELSE IF resp.blockReason # "" THEN BlockedError(resp)
    ELSE LET candidate == resp.candidates[1] IN
         IF candidate.finishReason # "" /\ candidate.finishReason \notin validFinishReasons
         THEN FinishReasonError(candidate, noImageMsg)
         ELSE IF Len(candidate.parts) = 0 THEN Failure("EmptyResult", "noContent", "", "")
         ELSE ScanParts(candidate.parts)

\* the checks between the await of generateContent and the end of the try
\* block, the same in both functions but for the NO_IMAGE message
ValidateResult(resp, noImageMsg) ==
    IF resp.blockReason # "" THEN BlockedError(resp)
    ELSE IF resp.candidates = <<>> THEN Failure("EmptyResult", "noCandidate", "", "")
    ELSE LET candidate == resp.candidates[1] IN
         IF candidate.finishReason # "" /\ candidate.finishReason \notin validFinishReasons
         THEN FinishReasonError(candidate, noImageMsg)
         ELSE IF Len(candidate.parts) = 0 THEN Failure("EmptyResult", "noContent", "", "")
         ELSE ScanParts(candidate.parts)

generateTryOnImage(resp) == ValidateResult(resp, "noImageTryOn")
editImage(resp) == ValidateResult(resp, "noImageEdit")

\* generateContent resolved inside generateTryOnImage
ResolveTryOn ==
    /\ outcome = Pending
    /\ outcome' = generateTryOnImage(response)
    /\ evt' = Event("tryOn", "none", 0)
    /\ UNCHANGED <<appState, response, blob, canvas, liveVars, chatVars>>

\* generateContent resolved inside editImage
ResolveEdit ==
    /\ outcome = Pending
    /\ outcome' = editImage(response)
    /\ evt' = Event("editImage", "none", 0)
    /\ UNCHANGED <<appState, response, blob, canvas, liveVars, chatVars>>

\* a Gateway call awaiting any of the modelled responses
InitGateway ==
    /\ AppIdle
    /\ response \in Responses
    /\ outcome = Pending
    /\ ResizeIdle
    /\ LiveChatClosed
    /\ ChatbotClosed

NextGateway == ResolveTryOn \/ ResolveEdit

SpecGateway == InitGateway /\ [][NextGateway]_vars

\* --------------------------------------------------- claims on the Gateway
Blocked == response.blockReason # ""
NoCandidate == response.candidates = <<>>
TheCandidate == response.candidates[1]
FinishKinds == {"SafetyBlocked", "TruncatedByLength", "RecitationBlocked",
                "NoImageProduced", "IncompleteGeneration"}
\* the candidate carries a finish reason outside the accepted set
Rejected == ~NoCandidate /\ TheCandidate.finishReason \notin {"", "STOP", "FINISH_REASON_UNSPECIFIED"}
\* the validation got as far as the scan of the content parts
ScanReached == outcome # Pending /\ ~Blocked /\ ~NoCandidate /\ ~Rejected
ImageIndices == {i \in 1 .. Len(TheCandidate.parts) : TheCandidate.parts[i].mimeType # ""}
TextIndices == {i \in 1 .. Len(TheCandidate.parts) : TheCandidate.parts[i].hasText}
NonEmptyTextIndices == {i \in TextIndices : TheCandidate.parts[i].text # ""}
Least(S) == CHOOSE i \in S : \A j \in S : i <= j

\* C11: the checks run in a fixed order: a block reason gives ContentBlocked
\* whatever the candidates are; without one, no candidate gives EmptyResult;
\* with a candidate, a finish reason outside the accepted set gives its mapped
\* error whatever the parts are; a result of the part scan (an image, the
\* text error, the no-image error) is given only when all three passed.
C11_ValidationPrecedence ==
    outcome # Pending =>
        /\ Blocked => outcome.kind = "ContentBlocked" /\ outcome.detail = response.blockReason
        /\ ~Blocked /\ NoCandidate => outcome.kind = "EmptyResult"
        /\ ~Blocked /\ Rejected => outcome.kind \in FinishKinds
        /\ outcome.ok \/ outcome.msg \in {"text", "noImage", "noContent"}
               => ~Blocked /\ ~NoCandidate /\ ~Rejected

\* a blocked response whose candidate holds an image and a rejected finish
\* reason
C11_Witness ==
    /\ outcome.kind = "ContentBlocked"
    /\ ~NoCandidate
    /\ TheCandidate.finishReason = "SAFETY"
    /\ ImageIndices # {}

\* C12 as stated: in the part scan the first image part is the result even
\* after text parts; with no image part but a text part the call fails with
\* UnexpectedTextResponse carrying that text; with neither, with EmptyResult.
C12_ImageFirstAnyText ==
    ScanReached =>
        /\ ImageIndices # {} =>
               /\ outcome.ok
               /\ outcome.detail = DataUrl(TheCandidate.parts[Least(ImageIndices)])
        /\ ImageIndices = {} /\ TextIndices # {} =>
               /\ outcome.kind = "UnexpectedTextResponse"
               /\ \E i \in TextIndices : outcome.detail = TheCandidate.parts[i].text
        /\ ImageIndices = {} /\ TextIndices = {} => outcome.kind = "EmptyResult"

\* C12, amended: as above, where a text part counts only if its text is not
\* empty, and the text carried is that of the first such part.
C12_ImageFirst ==
    ScanReached =>
        /\ ImageIndices # {} =>
               /\ outcome.ok
               /\ outcome.detail = DataUrl(TheCandidate.parts[Least(ImageIndices)])
        /\ ImageIndices = {} /\ NonEmptyTextIndices # {} =>
               /\ outcome.kind = "UnexpectedTextResponse"
               /\ outcome.detail = TheCandidate.parts[Least(NonEmptyTextIndices)].text
        /\ ImageIndices = {} /\ NonEmptyTextIndices = {} => outcome.kind = "EmptyResult"

\* a text part, then an image part: the image is the result
C12_Witness ==
    /\ ScanReached
    /\ Len(TheCandidate.parts) = 2
    /\ TheCandidate.parts[1].text = "sorry"
    /\ TheCandidate.parts[2].mimeType = "image/jpeg"
    /\ outcome.ok
    /\ outcome.detail = "data:image/jpeg;base64,BBB"

\* C13: a candidate whose finish reason is STOP or FINISH_REASON_UNSPECIFIED
\* is never failed with a finish-reason error; a candidate with any other
\* finish reason always fails: SAFETY with SafetyBlocked (with the category
\* of a rating above LOW where there is one, without category otherwise),
\* MAX_TOKENS with TruncatedByLength, RECITATION with RecitationBlocked,
\* NO_IMAGE with NoImageProduced, any other value with IncompleteGeneration
\* naming the value.
C13_FinishReasonMapping ==
    outcome # Pending /\ ~NoCandidate =>
        LET reason == TheCandidate.finishReason
            above == {i \in 1 .. Len(TheCandidate.safetyRatings) :
                         TheCandidate.safetyRatings[i].probability \in {"MEDIUM", "HIGH"}}
        IN /\ reason \in {"STOP", "FINISH_REASON_UNSPECIFIED"} => outcome.kind \notin FinishKinds
           /\ Rejected => ~outcome.ok
           /\ Rejected /\ ~Blocked =>
                  /\ reason = "SAFETY" =>
                         /\ outcome.kind = "SafetyBlocked"
                         /\ IF above = {} THEN outcome.category = ""
                            ELSE outcome.category =
                                     TheCandidate.safetyRatings[Least(above)].category
                  /\ reason = "MAX_TOKENS" => outcome.kind = "TruncatedByLength"
                  /\ reason = "RECITATION" => outcome.kind = "RecitationBlocked"
                  /\ reason = "NO_IMAGE" =>
                         /\ outcome.kind = "NoImageProduced"
                         /\ outcome.msg = IF evt.kind = "tryOn" THEN "noImageTryOn"
                                          ELSE "noImageEdit"
                  /\ reason \notin {"SAFETY", "MAX_TOKENS", "RECITATION", "NO_IMAGE"} =>
                         outcome.kind = "IncompleteGeneration" /\ outcome.detail = reason

\* a SAFETY candidate whose second rating is the first above LOW
C13_Witness ==
    /\ outcome.kind = "SafetyBlocked"
    /\ outcome.category = "SEXUAL"
    /\ TheCandidate.finishReason = "SAFETY"
    /\ Len(TheCandidate.parts) > 0

\* =============================================================== LiveChat
\* The live session component (src/unnamed/part_002): one lifetime of the
\* component, from its mount to its unmount, and the callbacks of its
\* channels and audio that run after that.

\* cap on startSession invocations
MaxSessions == 2
\* cap on the committed turns
MaxTurns == 1
\* cap on the length of an accumulator
MaxTextLen == 2
\* cap on the audio chunks received
MaxChunks == 2
\* cap on the output context's clock
MaxTime == 2

\* inputTranscription.text / outputTranscription.text of a message, "" where
\* the message has none
InputTexts == {"", "a"}
OutputTexts == {"", "b"}
\* audioBuffer.duration of the inline audio of a message, 0 where it has none
Durations == {0, 1, 2}
Messages == [input : InputTexts, output : OutputTexts, audio : Durations,
             turnComplete : BOOLEAN]

\* note: the text a message carried, the text endSession handed over
LiveEvent(k, session, text) == [kind |-> k, img |-> "none", slot |-> session, note |-> text]

\* startSession up to `await navigator.mediaDevices.getUserMedia`; input and
\* output are the accumulator values its callbacks close over
NewSession(ci, co) ==
    [pc |-> "media", input |-> ci, output |-> co, stream |-> FALSE,
     inCtx |-> "none", outCtx |-> "none", capture |-> "none"]

Max(a, b) == IF a > b THEN a ELSE b

\* sessionRef.current.close(): the channel starts closing, onclose follows
Closed(ss, k) ==
    IF k # 0 /\ ss[k].pc = "open" THEN [ss EXCEPT ![k].pc = "closing"] ELSE ss

\* cleanup(), on the objects: the capture nodes and the contexts the refs
\* hold are disconnected and closed
Cleanup(ss) ==
    [k \in 1 .. Len(ss) |->
        [ss[k] EXCEPT
            !.capture = IF scriptProcessorRef = k THEN "off" ELSE @,
            !.inCtx = IF audioContextRef = k /\ @ # "closed" THEN "closed" ELSE @,
            !.outCtx = IF outputAudioContextRef = k /\ @ # "closed" THEN "closed" ELSE @]]

\* cleanup(), on the refs and the started sources
CleanupRefs ==
    /\ scriptProcessorRef' = 0
    /\ audioContextRef' =
           IF audioContextRef # 0 /\ sessions[audioContextRef].inCtx # "closed"
           THEN 0 ELSE audioContextRef
    /\ outputAudioContextRef' =
           IF outputAudioContextRef # 0 /\ sessions[outputAudioContextRef].outCtx # "closed"
           THEN 0 ELSE outputAudioContextRef
    /\ sources' = [i \in 1 .. Len(sources) |->
                      IF i \in sourcesRef THEN [sources[i] EXCEPT !.state = "stopped"]
                      ELSE sources[i]]
    /\ sourcesRef' = {}

\* a state setter called after the unmount does nothing
Set(old, new) == IF isLiveChatOpen THEN new ELSE old

\* the click on the live chat button of App: LiveChat mounts and its effect
\* calls startSession
OpenLiveChat ==
    /\ ~isLiveChatOpen /\ sessions = <<>>
    /\ isLiveChatOpen' = TRUE
    /\ status' = "CONNECTING"
    /\ sessions' = <<NewSession(currentInput, currentOutput)>>
    /\ effectDeps' = <<currentInput, currentOutput>>
    /\ evt' = LiveEvent("mount", 1, "")
    /\ UNCHANGED <<appState, gatewayVars, chatVars, transcript, currentInput, currentOutput,
                   liveRefs, playback>>

\* getUserMedia resolved: the two contexts are made and ai.live.connect called
MediaGranted(k) ==
    /\ sessions[k].pc = "media"
    /\ sessions' = [sessions EXCEPT ![k] = [@ EXCEPT !.pc = "connecting", !.stream = TRUE,
                                              !.inCtx = "running", !.outCtx = "running"]]
    /\ audioContextRef' = k
    /\ outputAudioContextRef' = k
    /\ currentTime' = 0
    /\ evt' = LiveEvent("media", k, "")
    /\ UNCHANGED <<appState, gatewayVars, chatVars, isLiveChatOpen, liveState, effectDeps,
                   sessionRef, scriptProcessorRef, sourcesRef, nextStartTimeRef,
                   decoding, sources, arrived>>

\* getUserMedia rejected: the catch of startSession
MediaDenied(k) ==
    /\ sessions[k].pc = "media"
    /\ sessions' = [sessions EXCEPT ![k].pc = "failed"]
    /\ status' = Set(status, "ERROR")
    /\ evt' = LiveEvent("mediaDenied", k, "")
    /\ UNCHANGED <<appState, gatewayVars, chatVars, isLiveChatOpen, transcript, currentInput,
                   currentOutput, effectDeps, liveRefs, playback>>

\* the channel opened: onopen, then `sessionRef.current = await sessionPromise`
onopen(k) ==
    /\ sessions[k].pc = "connecting"
    /\ sessions' = [sessions EXCEPT ![k] = [@ EXCEPT !.pc = "open", !.capture = "on"]]
    /\ status' = Set(status, "CONNECTED")
    /\ scriptProcessorRef' = k
    /\ sessionRef' = k
    /\ evt' = LiveEvent("onopen", k, "")
    /\ UNCHANGED <<appState, gatewayVars, chatVars, isLiveChatOpen, transcript, currentInput,
                   currentOutput, effectDeps, audioContextRef, outputAudioContextRef,
                   sourcesRef, playback>>

\* ai.live.connect rejected: the catch of startSession
ConnectFailed(k) ==
    /\ sessions[k].pc = "connecting"
    /\ sessions' = [sessions EXCEPT ![k].pc = "failed"]
    /\ status' = Set(status, "ERROR")
    /\ evt' = LiveEvent("connectFailed", k, "")
    /\ UNCHANGED <<appState, gatewayVars, chatVars, isLiveChatOpen, transcript, currentInput,
                   currentOutput, effectDeps, liveRefs, playback>>

\* onerror of channel k; its close event follows
onerror(k) ==
    /\ sessions[k].pc = "open"
    /\ status' = Set(status, "ERROR")
    /\ sessions' = [Cleanup(sessions) EXCEPT ![k].pc = "closing"]
    /\ CleanupRefs
    /\ evt' = LiveEvent("onerror", k, "")
    /\ UNCHANGED <<appState, gatewayVars, chatVars, isLiveChatOpen, transcript, currentInput,
                   currentOutput, effectDeps, sessionRef, nextStartTimeRef, decoding,
                   currentTime, arrived>>

\* onclose of channel k: after close() or onerror, or closed by the server
onclose(k) ==
    /\ sessions[k].pc \in {"open", "closing"}
    /\ sessions' = [Cleanup(sessions) EXCEPT ![k].pc = "closed"]
    /\ CleanupRefs
    /\ evt' = LiveEvent("onclose", k, "")
    /\ UNCHANGED <<appState, gatewayVars, chatVars, isLiveChatOpen, liveState, effectDeps,
                   sessionRef, nextStartTimeRef, decoding, currentTime, arrived>>

\* the turnComplete block of onmessage of channel k: the turn is built from
\* the currentInput and currentOutput that startSession invocation k closed over
CommitTurn(k) ==
    /\ transcript' = Set(transcript, Append(transcript, [user |-> sessions[k].input,
                                                          ai |-> sessions[k].output]))
    /\ currentInput' = Set(currentInput, "")
    /\ currentOutput' = Set(currentOutput, "")

PendingTurns == Cardinality({h \in decoding : h.turnComplete})

\* onmessage of channel k, up to its end or to `await decodeAudioData`
onmessage(k, m) ==
    /\ sessions[k].pc = "open"
    /\ m.input # "" \/ m.output # "" \/ m.audio > 0 \/ m.turnComplete
    /\ Len(currentInput) + Len(m.input) <= MaxTextLen
    /\ Len(currentOutput) + Len(m.output) <= MaxTextLen
    /\ m.turnComplete => Len(transcript) + PendingTurns < MaxTurns
    /\ m.audio > 0 => arrived < MaxChunks
    /\ IF m.audio > 0 /\ outputAudioContextRef # 0
       THEN /\ nextStartTimeRef' = Max(nextStartTimeRef, currentTime)
            /\ decoding' = decoding \cup {[chunk |-> arrived + 1, session |-> k,
                                           duration |-> m.audio,
                                           turnComplete |-> m.turnComplete]}
            /\ arrived' = arrived + 1
            /\ currentInput' = Set(currentInput, currentInput \o m.input)
            /\ currentOutput' = Set(currentOutput, currentOutput \o m.output)
            /\ UNCHANGED transcript
       ELSE /\ IF m.turnComplete THEN CommitTurn(k)
               ELSE /\ currentInput' = Set(currentInput, currentInput \o m.input)
                    /\ currentOutput' = Set(currentOutput, currentOutput \o m.output)
                    /\ UNCHANGED transcript
            /\ UNCHANGED <<nextStartTimeRef, decoding, arrived>>
    /\ evt' = LiveEvent(IF m.turnComplete /\ ~(m.audio > 0 /\ outputAudioContextRef # 0)
                        THEN "turnComplete" ELSE "onmessage", k, m.input \o m.output)
    /\ UNCHANGED <<appState, gatewayVars, chatVars, isLiveChatOpen, status, effectDeps, sessions,
                   liveRefs, sources, currentTime>>

\* decodeAudioData resolved: the rest of the onmessage invocation h
DecodeDone(h) ==
    /\ h \in decoding
    /\ decoding' = decoding \ {h}
    /\ sources' = Append(sources, [chunk |-> h.chunk, start |-> nextStartTimeRef,
                                   duration |-> h.duration, state |-> "scheduled"])
    /\ nextStartTimeRef' = nextStartTimeRef + h.duration
    /\ sourcesRef' = sourcesRef \cup {Len(sources) + 1}
    /\ IF h.turnComplete THEN CommitTurn(h.session)
       ELSE UNCHANGED <<transcript, currentInput, currentOutput>>
    /\ evt' = LiveEvent(IF h.turnComplete THEN "turnComplete" ELSE "scheduled", h.session, "")
    /\ UNCHANGED <<appState, gatewayVars, chatVars, isLiveChatOpen, status, effectDeps, sessions,
                   sessionRef, audioContextRef, outputAudioContextRef,
                   scriptProcessorRef, currentTime, arrived>>

\* the 'ended' listener of source i
SourceEnded(i) ==
    /\ sources[i].state = "scheduled"
    /\ sources' = [sources EXCEPT ![i].state = "ended"]
    /\ sourcesRef' = sourcesRef \ {i}
    /\ evt' = LiveEvent("ended", 0, "")
    /\ UNCHANGED <<appState, gatewayVars, chatVars, isLiveChatOpen, liveState, effectDeps, sessions,
                   sessionRef, audioContextRef, outputAudioContextRef,
                   scriptProcessorRef, nextStartTimeRef, decoding, currentTime, arrived>>

\* the clock of the output context advances
Tick ==
    /\ outputAudioContextRef # 0
    /\ currentTime < MaxTime
    /\ currentTime' = currentTime + 1
    /\ evt' = LiveEvent("tick", 0, "")
    /\ UNCHANGED <<appState, gatewayVars, chatVars, isLiveChatOpen, liveState, effectDeps, sessions,
                   liveRefs, nextStartTimeRef, decoding, sources, arrived>>

\* `${prev}\n${finalTranscript}`.trim(), for texts without outer white space
JoinTrimmed(prev, text) == IF prev = "" THEN text ELSE prev \o "\n" \o text

\* App.handleLiveChatComplete, followed by the description effect
handleLiveChatComplete(finalTranscript) ==
    DescriptionEffect(hasImages,
                      IF finalTranscript # "" THEN JoinTrimmed(modelDescription, finalTranscript)
                      ELSE modelDescription)

\* mutant of lastAiResponse: the in-flight output first
lastAiResponseInFlightFirst ==
    IF currentOutput # "" THEN currentOutput
    ELSE IF Len(transcript) > 0 THEN transcript[Len(transcript)].ai ELSE ""

\* transcript[transcript.length - 1]?.ai || currentOutput
lastAiResponse ==
    IF Len(transcript) > 0 /\ transcript[Len(transcript)].ai # ""
    THEN transcript[Len(transcript)].ai ELSE currentOutput

\* the end button: endSession, onComplete, onClose, and the effect's cleanup
\* at the unmount that onClose causes
endSession ==
    /\ isLiveChatOpen
    /\ status' = "CLOSING"
    /\ sessions' = Cleanup(Closed(sessions, sessionRef))
    /\ sessionRef' = 0
    /\ CleanupRefs
    /\ modelDescription' = handleLiveChatComplete(lastAiResponse)
    /\ isLiveChatOpen' = FALSE
    /\ evt' = LiveEvent("endSession", 0, lastAiResponse)
    /\ UNCHANGED <<originalImages, isLookbookMode, generatedImages, isLoading, isEditing,
                   editPrompt, error, history, gens, edits, lastEdit, gatewayVars, chatVars,
                   faceSourceIndex,
                   transcript, currentInput, currentOutput, effectDeps,
                   nextStartTimeRef, decoding, currentTime, arrived>>

\* the X button: onClose alone; the unmount runs the effect's cleanup
closeButton ==
    /\ isLiveChatOpen
    /\ sessions' = Cleanup(Closed(sessions, sessionRef))
    /\ CleanupRefs
    /\ isLiveChatOpen' = FALSE
    /\ evt' = LiveEvent("unmount", 0, "")
    /\ UNCHANGED <<appState, gatewayVars, chatVars, liveState, effectDeps, sessionRef,
                   nextStartTimeRef, decoding, currentTime, arrived>>

\* startSession is rebuilt when currentInput or currentOutput changed, so the
\* effect on [startSession, cleanup] runs again: its cleanup, then startSession
EffectRerun ==
    /\ isLiveChatOpen
    /\ <<currentInput, currentOutput>> # effectDeps
    /\ Len(sessions) < MaxSessions
    /\ sessions' = Append(Cleanup(Closed(sessions, sessionRef)),
                          NewSession(currentInput, currentOutput))
    /\ CleanupRefs
    /\ status' = "CONNECTING"
    /\ effectDeps' = <<currentInput, currentOutput>>
    /\ evt' = LiveEvent("startSession", Len(sessions) + 1, "")
    /\ UNCHANGED <<appState, gatewayVars, chatVars, isLiveChatOpen, transcript, currentInput,
                   currentOutput, sessionRef, nextStartTimeRef, decoding, currentTime,
                   arrived>>

\* ------------------------------------------------ LiveChat specifications
SessionIds == 1 .. Len(sessions)
TextMessages == {m \in Messages : m.audio = 0}

ConnectStep ==
    \E k \in SessionIds :
        \/ MediaGranted(k)
        \/ MediaDenied(k)
        \/ onopen(k)
        \/ ConnectFailed(k)

ChannelEnd == \E k \in SessionIds : onerror(k) \/ onclose(k)

MessageStep(M) == \E k \in SessionIds : \E m \in M : onmessage(k, m)

PlaybackStep ==
    \/ \E h \in decoding : DecodeDone(h)
    \/ \E i \in 1 .. Len(sources) : SourceEnded(i)
    \/ Tick

LiveIdle == GatewayIdle /\ LiveChatClosed /\ ChatbotClosed

\* the session with its transcript: messages carry text and turn ends, no audio
InitSession == (AppIdle \/ AppTyped) /\ LiveIdle

NextSession ==
    \/ OpenLiveChat
    \/ ConnectStep
    \/ ChannelEnd
    \/ MessageStep(TextMessages)
    \/ EffectRerun
    \/ endSession
    \/ closeButton

SpecSession == InitSession /\ [][NextSession]_vars

\* audio playback: messages carry audio and turn ends, no text
AudioMessages == {m \in Messages : m.audio > 0 /\ m.input = "" /\ m.output = ""}

NextPlayback ==
    \/ OpenLiveChat
    \/ ConnectStep
    \/ MessageStep(AudioMessages)
    \/ PlaybackStep
    \/ closeButton

InitPlayback == AppIdle /\ LiveIdle

SpecPlayback == InitPlayback /\ [][NextPlayback]_vars

\* -------------------------------------------------- claims on LiveChat
\* C14: when a message with turnComplete is handled while both accumulators
\* are non-empty (the message itself carrying no text), exactly one turn is
\* appended to the transcript, holding the text of the two accumulators, and
\* both accumulators become the empty string.
C14_TurnCommit ==
    [][evt'.kind = "turnComplete" /\ evt'.note = "" /\ isLiveChatOpen
       /\ currentInput # "" /\ currentOutput # ""
       => /\ transcript' = Append(transcript, [user |-> currentInput, ai |-> currentOutput])
          /\ currentInput' = ""
          /\ currentOutput' = ""]_vars

\* every source started so far, in the order of arrival of its chunk
Fifo ==
    \A i, j \in 1 .. Len(sources) :
        sources[i].chunk < sources[j].chunk =>
            sources[j].start >= sources[i].start + sources[i].duration

\* C15: a chunk that arrived after another one is started no earlier than
\* the start of that one plus its duration, and the next-start-time
\* watermark never decreases.
C15_PlaybackFifo == [][nextStartTimeRef' >= nextStartTimeRef /\ Fifo']_vars

\* what cleanup releases of invocation k, and its channel
Released(k) ==
    /\ sessions[k].pc \notin {"connecting", "open"}
    /\ sessions[k].capture # "on"
    /\ sessions[k].inCtx # "running"
    /\ sessions[k].outCtx # "running"
NoSourceScheduled == \A i \in 1 .. Len(sources) : sources[i].state # "scheduled"

\* C16: right after endSession, and right after the unmount, every channel
\* is closed or closing, no capture node is connected, no audio context is
\* running, no started source is still scheduled and no microphone stream is
\* live.
C16_TeardownReleases ==
    evt.kind \in {"endSession", "unmount"} =>
        /\ \A k \in SessionIds : Released(k) /\ ~sessions[k].stream
        /\ NoSourceScheduled

\* C17: a failure of startSession and an onerror of a channel, while the
\* component is mounted, set the status to ERROR, release what a close
\* releases of that session, and leave transcript and accumulators as they
\* were; while the status is ERROR no startSession is called.
C17_FailureTearsDown ==
    [][/\ evt'.kind \in {"mediaDenied", "connectFailed", "onerror"} /\ isLiveChatOpen
          => /\ status' = "ERROR"
             /\ \A k \in SessionIds : k = evt'.slot => Released(k)'
             /\ NoSourceScheduled'
             /\ UNCHANGED <<transcript, currentInput, currentOutput>>
       /\ status = "ERROR" => Len(sessions') = Len(sessions)]_vars

\* the most recent model text: the in-flight one, else that of the last turn
MostRecentText ==
    IF currentOutput # "" THEN currentOutput
    ELSE IF Len(transcript) > 0 THEN transcript[Len(transcript)].ai ELSE ""
\* the model text of the last committed turn, else the in-flight one
LastTurnElseInFlight ==
    IF Len(transcript) > 0 /\ transcript[Len(transcript)].ai # ""
    THEN transcript[Len(transcript)].ai ELSE currentOutput
Appended(text) ==
    IF text = "" THEN modelDescription' = modelDescription
    ELSE modelDescription' = (IF modelDescription = "" THEN text
                              ELSE modelDescription \o "\n" \o text)

\* C18 as stated: endSession hands over the most recent model text of the
\* session, in-flight or committed, the description grows by exactly that
\* text when it is non-empty and stays as it is otherwise, and the component
\* is closed.
C18_HandsMostRecent ==
    [][evt'.kind = "endSession" =>
           /\ evt'.note = MostRecentText
           /\ Appended(evt'.note)
           /\ ~isLiveChatOpen']_vars

\* C18, amended: the text handed over is the model text of the last
\* committed turn when that is non-empty, and the in-flight output
\* accumulator otherwise.
C18_HandsLastTurn ==
    [][evt'.kind = "endSession" =>
           /\ evt'.note = LastTurnElseInFlight
           /\ Appended(evt'.note)
           /\ ~isLiveChatOpen']_vars

\* endSession with a committed turn and a different in-flight text: the
\* turn's text was appended to the typed description
C18_Witness ==
    /\ evt.kind = "endSession"
    /\ Len(transcript) > 0
    /\ currentOutput # ""
    /\ transcript[Len(transcript)].ai # currentOutput
    /\ evt.note = transcript[Len(transcript)].ai
    /\ evt.note # ""
    /\ modelDescription = "text\n" \o evt.note

\* ================================================================ Chatbot
\* The text chat (src/components/Chatbot.tsx): the message list, its
\* streaming updates and its copy in localStorage. A JSON text is a sequence
\* of tokens.

\* cap on the length of the message list
MaxMessages == 4
\* cap on the text chunks of one stream
MaxDeltas == 2

initialMessage == [sender |-> "ai", text |-> "greeting", groundingChunks |-> "undefined"]
\* chunk.text of a stream chunk, "" where the chunk has none
Deltas == {"", "x", "y"}

\* JSON.stringify of a message: a property whose value is undefined is left out
ObjectTokens(m) ==
    <<"{", "sender", m.sender, "text", m.text>>
    \o (IF m.groundingChunks = "undefined" THEN <<>>
        ELSE <<"groundingChunks", m.groundingChunks>>)
    \o <<"}">>

RECURSIVE ElementTokens(_)
ElementTokens(items) ==
    IF items = <<>> THEN <<>>
    ELSE IF Len(items) = 1 THEN ObjectTokens(items[1])
    ELSE ObjectTokens(items[1]) \o <<",">> \o ElementTokens(Tail(items))

\* JSON.stringify(messages)
JSONstringify(items) == <<"[">> \o ElementTokens(items) \o <<"]">>

SyntaxError == [error |-> TRUE, value |-> NonArr("SyntaxError"), next |-> 0]
Parsed(value, next) == [error |-> FALSE, value |-> value, next |-> next]
EmptyObject == [sender |-> "undefined", text |-> "undefined", groundingChunks |-> "undefined"]

\* the members of an object from token j on, up to its "}"
RECURSIVE ParseMembers(_, _, _)
ParseMembers(toks, j, obj) ==
    IF j > Len(toks) THEN SyntaxError
    ELSE IF toks[j] = "}" THEN Parsed(obj, j + 1)
    ELSE IF toks[j] \notin DOMAIN EmptyObject \/ j + 1 > Len(toks) THEN SyntaxError
    ELSE ParseMembers(toks, j + 2, [obj EXCEPT ![toks[j]] = toks[j + 1]])

\* the elements of an array from token j on: an object, then "," or the final "]"
RECURSIVE ParseElements(_, _, _)
ParseElements(toks, j, items) ==
    IF j > Len(toks) \/ toks[j] # "{" THEN SyntaxError
    ELSE LET o == ParseMembers(toks, j + 1, EmptyObject) IN
         IF o.error \/ o.next > Len(toks) THEN SyntaxError
         ELSE IF toks[o.next] = "]"
         THEN IF o.next = Len(toks) THEN Parsed(Arr(Append(items, o.value)), o.next + 1)
              ELSE SyntaxError
         ELSE IF toks[o.next] = "," THEN ParseElements(toks, o.next + 1, Append(items, o.value))
         ELSE SyntaxError

\* JSON.parse, for the texts modelled: null, a number, an object, an array of
\* objects; anything else throws
JSONparse(toks) ==
    IF toks = <<"null">> THEN Parsed(NonArr("null"), 2)
    ELSE IF toks = <<"42">> THEN Parsed(NonArr("number"), 2)
    ELSE IF toks = <<"{", "}">> THEN Parsed(NonArr("object"), 3)
    ELSE IF toks = <<"[", "]">> THEN Parsed(Arr(<<>>), 3)
    ELSE IF Len(toks) > 0 /\ toks[1] = "[" THEN ParseElements(toks, 2, <<>>)
    ELSE SyntaxError

\* the initializer of useState<Message[]>: getItem, JSON.parse, the catch
LoadMessages ==
    IF ~storage.present \/ storage.text = <<>> THEN Arr(<<initialMessage>>)
    ELSE LET savedHistory == JSONparse(storage.text) IN
         IF savedHistory.error THEN Arr(<<initialMessage>>) ELSE savedHistory.value

\* the effect on [messages]: localStorage.setItem(key, JSON.stringify(messages))
Persist(items) ==
    /\ storage' = [present |-> TRUE, text |-> JSONstringify(items)]
    /\ savedList' = [valid |-> TRUE, list |-> items]

\* a render of a messages value that is no array throws
ChatbotRuns == isChatbotOpen /\ messages.isArray

\* the click on the chat button of App: Chatbot mounts, then its effects run
OpenChatbot ==
    /\ ~isChatbotOpen
    /\ isChatbotOpen' = TRUE
    /\ messages' = LoadMessages
    /\ IF LoadMessages.isArray THEN Persist(LoadMessages.items)
       ELSE UNCHANGED <<storage, savedList>>
    /\ evt' = LiveEvent("mountChat", 0, "")
    /\ UNCHANGED <<appState, gatewayVars, liveVars, input, isStreaming, chatError, stream,
                   inProgress>>

\* onClose: Chatbot unmounts; what a pending stream does after that is lost
CloseChatbot ==
    /\ ChatbotRuns
    /\ isChatbotOpen' = FALSE
    /\ messages' = Arr(<<>>)
    /\ input' = ""
    /\ isStreaming' = FALSE
    /\ chatError' = "null"
    /\ stream' = NoStream
    /\ inProgress' = 0
    /\ evt' = LiveEvent("unmountChat", 0, "")
    /\ UNCHANGED <<appState, gatewayVars, liveVars, storage, savedList>>

\* onChange of the input field
SetInput(t) ==
    /\ ChatbotRuns
    /\ input # t
    /\ input' = t
    /\ evt' = LiveEvent("input", 0, "")
    /\ UNCHANGED <<appState, gatewayVars, liveVars, isChatbotOpen, messages, isStreaming,
                   chatError, storage, stream, inProgress, savedList>>

\* handleSendMessage up to `await getChatResponseStream`
handleSendMessage ==
    /\ ChatbotRuns
    /\ input # "" /\ ~isStreaming
    /\ Len(messages.items) + 3 <= MaxMessages
    /\ messages' = Arr(Append(messages.items, [sender |-> "user", text |-> input,
                                               groundingChunks |-> "undefined"]))
    /\ input' = ""
    /\ isStreaming' = TRUE
    /\ chatError' = "null"
    /\ stream' = [pc |-> "await", text |-> "", groundingChunks |-> "[]"]
    /\ Persist(messages'.items)
    /\ evt' = LiveEvent("send", 0, "")
    /\ UNCHANGED <<appState, gatewayVars, liveVars, isChatbotOpen, inProgress>>

\* the stream was obtained: the empty AI message is appended
StreamOpened ==
    /\ ChatbotRuns
    /\ stream.pc = "await"
    /\ messages' = Arr(Append(messages.items, [sender |-> "ai", text |-> "",
                                               groundingChunks |-> "undefined"]))
    /\ stream' = [stream EXCEPT !.pc = "open"]
    /\ inProgress' = Len(messages.items) + 1
    /\ Persist(messages'.items)
    /\ evt' = LiveEvent("streamOpen", 0, "")
    /\ UNCHANGED <<appState, gatewayVars, liveVars, isChatbotOpen, input, isStreaming,
                   chatError>>

\* one turn of the for-await loop: newMessages[newMessages.length - 1].text =
\* aiResponseText, where the chunk has text; g: the chunk has grounding chunks
StreamChunk(t, g) ==
    /\ ChatbotRuns
    /\ stream.pc = "open"
    /\ t # "" \/ g
    /\ Len(stream.text) + Len(t) <= MaxDeltas
    /\ stream' = [stream EXCEPT !.text = @ \o t,
                                !.groundingChunks = IF g THEN "[g]" ELSE @]
    /\ IF t # ""
       THEN /\ messages' = Arr([messages.items EXCEPT ![Len(messages.items)].text = stream'.text])
            /\ Persist(messages'.items)
       ELSE UNCHANGED <<messages, storage, savedList>>
    /\ evt' = LiveEvent(IF t # "" THEN "delta" ELSE "chunk", 0, t)
    /\ UNCHANGED <<appState, gatewayVars, liveVars, isChatbotOpen, input, isStreaming,
                   chatError, inProgress>>

\* the stream ended: the grounding chunks are put on the last message, then
\* the finally block
StreamEnd ==
    /\ ChatbotRuns
    /\ stream.pc = "open"
    /\ messages' = Arr([messages.items EXCEPT
                            ![Len(messages.items)].groundingChunks = stream.groundingChunks])
    /\ isStreaming' = FALSE
    /\ stream' = NoStream
    /\ inProgress' = 0
    /\ Persist(messages'.items)
    /\ evt' = LiveEvent("streamEnd", 0, "")
    /\ UNCHANGED <<appState, gatewayVars, liveVars, isChatbotOpen, input, chatError>>

\* getChatResponseStream or the stream threw: the catch and the finally block
StreamFailed ==
    /\ ChatbotRuns
    /\ stream.pc \in {"await", "open"}
    /\ chatError' = "failed"
    /\ messages' = Arr(Append(messages.items, [sender |-> "ai", text |-> "sorry: failed",
                                               groundingChunks |-> "undefined"]))
    /\ isStreaming' = FALSE
    /\ stream' = NoStream
    /\ inProgress' = 0
    /\ Persist(messages'.items)
    /\ evt' = LiveEvent("streamFailed", 0, "")
    /\ UNCHANGED <<appState, gatewayVars, liveVars, isChatbotOpen, input>>

\* the clear button: setMessages([initialMessage])
handleClearHistory ==
    /\ ChatbotRuns
    /\ messages' = Arr(<<initialMessage>>)
    /\ inProgress' = 0
    /\ Persist(messages'.items)
    /\ evt' = LiveEvent("clear", 0, "")
    /\ UNCHANGED <<appState, gatewayVars, liveVars, isChatbotOpen, input, isStreaming,
                   chatError, stream>>

\* --------------------------------------------------- Chatbot specification
\* lists an earlier visit can have left in the storage
SavedLists ==
    {<<>>,
     <<initialMessage>>,
     <<initialMessage,
       [sender |-> "user", text |-> "hi", groundingChunks |-> "undefined"],
       [sender |-> "ai", text |-> "xy", groundingChunks |-> "[g]"]>>}
\* texts that are not the JSON of a message list: the empty string, no JSON,
\* JSON of another value, a cut-off JSON of a list
CorruptTexts ==
    {<<>>, <<"oops">>, <<"null">>, <<"42">>, <<"{", "}">>, <<"[", "{", "}", "]">>}
    \cup {SubSeq(JSONstringify(l), 1, n) : l \in SavedLists \ {<<>>}, n \in {1, 5, 6}}

InitChat ==
    /\ AppIdle /\ GatewayIdle /\ LiveChatClosed
    /\ ChatbotUnmounted
    /\ \/ storage = [present |-> FALSE, text |-> <<>>] /\ savedList = [valid |-> FALSE, list |-> <<>>]
       \/ \E c \in CorruptTexts :
              storage = [present |-> TRUE, text |-> c] /\ savedList = [valid |-> FALSE, list |-> <<>>]
       \/ \E l \in SavedLists :
              storage = [present |-> TRUE, text |-> JSONstringify(l)]
              /\ savedList = [valid |-> TRUE, list |-> l]

NextChat ==
    \/ OpenChatbot
    \/ CloseChatbot
    \/ SetInput("hi")
    \/ handleSendMessage
    \/ StreamOpened
    \/ \E t \in Deltas : \E g \in BOOLEAN : StreamChunk(t, g)
    \/ StreamEnd
    \/ StreamFailed
    \/ handleClearHistory

SpecChat == InitChat /\ [][NextChat]_vars

\* ---------------------------------------------------- claims on Chatbot
\* C19: each text delta of a stream is appended to the text of the message
\* that was made for this stream, which is still in the list, and the stream
\* changes no other message, whatever else was done since the stream began.
C19_DeltasInOrder ==
    [][evt'.kind = "delta" =>
           /\ inProgress \in 1 .. Len(messages.items)
           /\ messages'.items = [messages.items EXCEPT ![inProgress].text = @ \o evt'.note]]_vars

\* C20: when Chatbot mounts, its message list is the list the stored text was
\* written from, in the same order, if the stored text is the JSON of a
\* message list, and the single greeting if it is missing or anything else.
C20_DefensiveLoad ==
    [][evt'.kind = "mountChat" =>
           messages' = Arr(IF savedList.valid THEN savedList.list ELSE <<initialMessage>>)]_vars

\* ================================================================ resize
\* resizeImageBlob (services/geminiService), called by fileToBase64 and
\* imageUrlToBase64 with maxSize = 1024

\* the sides drawn lie within SideSpan of 1 and of maxSize
SideSpan == 12

\* resizeImageBlob(file, 1024)
MaxSize == 1024

\* widths and heights of the images loaded
Sides ==
    (1 .. SideSpan) \cup ((MaxSize - SideSpan) .. (MaxSize + SideSpan))
    \cup {2 * MaxSize, 3 * MaxSize}

\* mutant of Round: the quotient is cut off
RoundDown(n, d) == n \div d

\* Math.round(n / d) for n >= 0 and d > 0: a half is rounded up
Round(n, d) == (2 * n + d) \div (2 * d)

\* the width and height given to the canvas
Resize(width, height, maxSize) ==
    IF width > height
    THEN IF width > maxSize
         THEN [width |-> maxSize, height |-> Round(height * maxSize, width)]
         ELSE [width |-> width, height |-> height]
    ELSE IF height > maxSize
         THEN [width |-> Round(width * maxSize, height), height |-> maxSize]
         ELSE [width |-> width, height |-> height]

\* img.onload of resizeImageBlob(blob, maxSize), up to drawImage
resizeImageBlob(maxSize) ==
    /\ canvas = NoImage
    /\ canvas' = Resize(blob.width, blob.height, maxSize)
    /\ evt' = Event("resize", "none", 0)
    /\ UNCHANGED <<appState, response, outcome, blob, liveVars, chatVars>>

\* fileToBase64(file): the file holds an image of any of the sizes
InitResize ==
    /\ AppIdle
    /\ response = NoResponse /\ outcome = Pending
    /\ blob \in [width : Sides, height : Sides]
    /\ canvas = NoImage
    /\ LiveChatClosed
    /\ ChatbotClosed

NextResize == resizeImageBlob(MaxSize)

SpecResize == InitResize /\ [][NextResize]_vars

\* |q - n / d| <= 1/2: q is an integer nearest to n / d
Nearest(q, n, d) == 2 * q * d - 2 * n <= d /\ 2 * n - 2 * q * d <= d

\* C21: a resized image has no side above 1024; an image with no side above
\* 1024 keeps its width and height; an image with a side above 1024 gets 1024
\* as its longer side, and its other side is an integer nearest to the value
\* that keeps the aspect ratio.
C21_ResizeBounded ==
    canvas # NoImage =>
        LET longer == Max(blob.width, blob.height) IN
        /\ Max(canvas.width, canvas.height) <= MaxSize
        /\ longer <= MaxSize => canvas = blob
        /\ longer > MaxSize =>
              /\ Max(canvas.width, canvas.height) = MaxSize
              /\ IF blob.width > blob.height
                 THEN /\ canvas.width = MaxSize
                      /\ Nearest(canvas.height, blob.height * MaxSize, blob.width)
                 ELSE /\ canvas.height = MaxSize
                      /\ Nearest(canvas.width, blob.width * MaxSize, blob.height)

\* a landscape image whose exact height would be 5.5 is drawn 6 high
C21_Witness ==
    /\ blob = [width |-> 2 * MaxSize, height |-> 11]
    /\ canvas = [width |-> MaxSize, height |-> 6]

\* ================================================== claims on App, continued
\* variant slot i (0-based index i >= 1) of a slot sequence s holds v
VariantSlotIs(s, i, v) == i + 1 <= Len(s) /\ s[i + 1] = v

\* some pending generate operation has had its base call return an image
BaseReached == \E k \in 1 .. Len(gens) : IsImage(gens[k].base)

\* C22 as stated: a variant slot is Loading only if slot 0 has reached Ready
\* in the same generate operation.
C22_LoadingAfterBase ==
    \A i \in VariantSlots : VariantSlotIs(generatedImages, i, "loading") => BaseReached

\* C22, amended: a generate operation sets every slot it requests to Loading
\* when it starts, the variant slots included; a variant slot becomes Ready or
\* Failed only by the callback of a variant call of an operation whose slot 0
\* has reached Ready.
C22_SettledAfterBase ==
    [][/\ (evt'.kind = "generate" =>
              /\ Len(generatedImages') = (IF isLookbookMode THEN LOOKBOOK_SLOTS ELSE 1)
              /\ \A i \in 1 .. Len(generatedImages') : generatedImages'[i] = "loading")
       /\ \A i \in VariantSlots :
              (/\ i + 1 <= Len(generatedImages')
               /\ SlotSettled(generatedImages'[i + 1])
               /\ ~VariantSlotIs(generatedImages, i, generatedImages'[i + 1]))
              => /\ evt'.kind \in {"variantOk", "variantFail"}
                 /\ evt'.slot = i
                 /\ BaseReached]_vars

\* the first variant has failed, the second is still Loading, the third is Ready
C22_Witness ==
    /\ evt.kind = "variantOk"
    /\ Len(generatedImages) = LOOKBOOK_SLOTS
    /\ IsImage(generatedImages[1])
    /\ generatedImages[2] = "error"
    /\ generatedImages[3] = "loading"
    /\ IsImage(generatedImages[4])

\* C23: the completion of the variant call for slot i, success or failure,
\* changes the entry at index i of the slot sequence and nothing else: the
\* sequence has the same other entries before and after, and the history, the
\* error and isLoading are as before.
C23_VariantWritesOwnSlot ==
    [][evt'.kind \in {"variantOk", "variantFail"} =>
          /\ \A j \in 1 .. Max(Len(generatedImages), Len(generatedImages')) :
                j # evt'.slot + 1 =>
                    /\ j <= Len(generatedImages)
                    /\ j <= Len(generatedImages')
                    /\ generatedImages'[j] = generatedImages[j]
          /\ UNCHANGED <<history, error, isLoading>>]_vars

\* ============================================= claims on LiveChat, continued
\* Idle -> Connecting -> Connected -> (Listening <-> Connected) -> Closing ->
\* Idle, and Error from Connecting or Connected
StatusTransitions ==
    {<<"IDLE", "CONNECTING">>, <<"CONNECTING", "CONNECTED">>,
     <<"CONNECTED", "LISTENING">>, <<"LISTENING", "CONNECTED">>,
     <<"CONNECTED", "CLOSING">>, <<"LISTENING", "CLOSING">>,
     <<"CLOSING", "IDLE">>,
     <<"CONNECTING", "ERROR">>, <<"CONNECTED", "ERROR">>}

\* C24: the status changes only along Idle -> Connecting -> Connected ->
\* (Listening <-> Connected) -> Closing -> Idle, or to Error from Connecting
\* or Connected, and once the channel of the session has closed the status of
\* the mounted view is Idle.
C24_StatusMachine ==
    [][/\ status' # status => <<status, status'>> \in StatusTransitions
       /\ evt'.kind = "onclose" /\ isLiveChatOpen' => status' = "IDLE"]_vars

\* C25: in one mount startSession opens one channel, and an open channel stops
\* being open only by endSession, the unmount, or its own error or close; a
\* message received neither closes it nor leads to a second channel.
C25_OneChannelPerMount ==
    [][/\ Len(sessions') <= 1
       /\ \A k \in SessionIds :
              sessions[k].pc = "open" /\ sessions'[k].pc # "open" =>
                  evt'.kind \in {"endSession", "unmount", "onerror", "onclose"}]_vars

\* C26: a connection that completes after endSession or the unmount leaves no
\* channel open and starts no audio capture.
C26_NoChannelAfterTeardown ==
    [][evt'.kind = "onopen" /\ ~isLiveChatOpen =>
          /\ sessions'[evt'.slot].pc # "open"
          /\ sessions'[evt'.slot].capture # "on"]_vars

\* ====================================================== concurrent edits
\* cap on the handleEdit invocations pending at once when Enter is pressed
\* while an edit is pending
MaxEnterEdits == 2

\* Enter in the edit input (onKeyDown) while an edit is pending: the key
\* handler calls handleEdit whatever isEditing is
EnterEditPending ==
    /\ Runnable
    /\ EditPanelShown
    /\ isEditing
    /\ Len(edits) < MaxEnterEdits
    /\ handleEdit

\* generate and edit, where Enter is pressed also while an edit is pending
NextEnter ==
    \/ ClickGenerate
    \/ BaseDone(OneImage)
    \/ EditStep(OnePrompt)
    \/ EnterEditPending
    \/ EditDone(Images)

SpecEnter == InitData /\ [][NextEnter]_vars

\* C27: at most one edit request is pending at any time, whether edits are
\* started by the button or by the Enter key, and isEditing is true exactly
\* while an edit request is pending.
C27_OneEditInFlight ==
    /\ Len(edits) <= 1
    /\ isEditing <=> edits # <<>>

\* ================================================ claims on App, continued
\* every entry of the slot sequence is Loading, Failed or a Ready image
SlotsWellFormed ==
    \A i \in 1 .. Len(generatedImages) :
        generatedImages[i] \in {"loading", "error"} \cup Images

\* C28: every entry of the slot sequence is Loading, Failed or a Ready image,
\* never missing or undefined, and a completion callback of a generate
\* operation writes only into the sequence that operation made: the sequence
\* it finds still has the slots the operation requested.
C28_SlotsWellFormed ==
    /\ []SlotsWellFormed
    /\ [][evt'.kind \in {"baseOk", "variantOk", "variantFail"} /\ Len(gens) = 1 =>
              Len(generatedImages) = Len(LoadingSlots(gens[1].lookbook))]_vars

\* =========================================================== face source
\* number of upload positions where a face source is chosen
NumFaceSlots == 2
FaceSlots == 0 .. (NumFaceSlots - 1)

\* handleSetFaceSource(index); the button is rendered by ImageUpload where
\* previewUrl is set, which handleFileChange sets along with the image
handleSetFaceSource(i) ==
    /\ Runnable
    /\ originalImages[i]
    /\ faceSourceIndex' = IF faceSourceIndex = i THEN NoIndex ELSE i
    /\ evt' = Event("ui", "none", 0)
    /\ UNCHANGED outside
    /\ UNCHANGED <<originalImages, modelDescription, isLookbookMode, generatedImages,
                   isLoading, isEditing, editPrompt, error, history, gens, edits, lastEdit>>

\* App after construction, with NumFaceSlots upload positions
AppFace ==
    /\ originalImages = [i \in FaceSlots |-> FALSE]
    /\ modelDescription = DescriptionEffect(FALSE, INITIAL_MODEL_DESCRIPTION)
    /\ isLookbookMode = FALSE
    /\ generatedImages = <<>>
    /\ isLoading = FALSE
    /\ isEditing = FALSE
    /\ editPrompt = ""
    /\ error = NoError
    /\ history = <<>>
    /\ gens = <<>>
    /\ edits = <<>>
    /\ evt = Event("init", "none", 0)
    /\ lastEdit = ""
    /\ faceSourceIndex = NoIndex

InitFace == AppFace /\ Elsewhere

\* the upload grid with the face source, reset, generate and edit
NextFace ==
    \/ \E i \in FaceSlots : Upload(i)
    \/ \E i \in FaceSlots : Delete(i)
    \/ \E i \in FaceSlots : handleSetFaceSource(i)
    \/ handleReset
    \/ ClickGenerate
    \/ BaseDone(OneImage)
    \/ EditStep(OnePrompt)
    \/ EditDone(OneImage)

SpecFace == InitFace /\ [][NextFace]_vars

\* C29: the face source is null or the index of an upload position that holds
\* an image, and the face source an edit is called with is the image at that
\* position, never a deleted one.
C29_FaceSourceHeld ==
    /\ faceSourceIndex # NoIndex =>
           faceSourceIndex \in DOMAIN originalImages /\ originalImages[faceSourceIndex]
    /\ evt.kind = "edit" => edits[Len(edits)].face = faceSourceIndex

\* an edit called with the image at position 1 as face source, after the
\* image at position 0 was deleted
C29_Witness ==
    /\ evt.kind = "edit"
    /\ faceSourceIndex = 1
    /\ edits[Len(edits)].face = 1
    /\ ~originalImages[0]
    /\ generatedImages # <<>>

\* C30: when the Gateway call of an edit fails, the slot sequence, the history
\* and the edit prompt are as before, the error is set and isEditing is false.
C30_EditFailureKeepsState ==
    [][evt'.kind = "editFail" =>
          /\ UNCHANGED <<generatedImages, history, editPrompt>>
          /\ error' = GatewayMessage
          /\ ~isEditing']_vars

\* a failed edit of a generated image: the image, the history and the prompt
\* are still there
C30_Witness ==
    /\ evt.kind = "editFail"
    /\ error = GatewayMessage
    /\ ~isEditing
    /\ generatedImages = <<"imgA">>
    /\ history = <<"imgA">>
    /\ editPrompt = "p1"

====
